---- MODULE Spec2Model ----
(***************************************************************************)
(* Model of the ottiaq notebook (src/ottiaq.ipynb): a linear script that   *)
(* scrapes a randomly ordered result list, keeps per-identifier rank       *)
(* counters in an sqlite3 table, plans how many more rounds to collect and *)
(* reads the rank columns back for a chi-square test.                      *)
(*                                                                         *)
(* The sqlite3 connection is modelled by two copies of the database: `db`  *)
(* is the committed (durable) content, `view` is what statements executed  *)
(* on the notebook's cursor see (committed content plus the changes of the *)
(* open implicit transaction).  conn.commit() makes db equal to view.      *)
(***************************************************************************)
EXTENDS Integers, Sequences, FiniteSets, TLC

\* ------------------------------------------------------------------ bounds
MaxLen == 2          \* longest result list with repeated numbers
MaxRounds == 3       \* fetches of one run of the notebook (Spec)
MaxPrior == 1        \* rounds an earlier run left in the store (Spec)
MaxPlanRounds == 2   \* fetches of one run of the notebook (SpecPlan)
MaxPlanPrior == 9    \* rounds an earlier run left in the store (SpecPlan)

\* ------------------------------------------------------- program constants
SamplesPerCategory == 5     \* min_samples = 5 * num_results
TargetFactor == 2           \* 2 * min_samples
RankToCheck == 0            \* rank = 0

Ids == {3, 7, 9}                    \* membership numbers the server may list
TableNames == {"fren", "enfr"}      \* table names the caller may configure
PriorMatches == <<3>>               \* result list of the earlier run

VARIABLES
    table,         \* configured table name (cell 2)
    db,            \* committed content of ottiaq.db: table name -> table
    view,          \* content as seen through the notebook's connection
    matches,       \* last list returned by scrape
    num_results,   \* len(matches) of the exploratory sample
    num_requests,  \* planned number of additional rounds
    N,             \* rounds finished by the running collect call
    ranks,         \* last column returned by get_ranks
    pc,            \* the notebook cell that runs next
    err,           \* exception that halted the run, or "none"
    budget,        \* fetches the run may still make (model bound)
    completed,     \* history: update_ranks calls that reached their commit
    observed,      \* history: id -> completed rounds in which it appeared
    run,           \* history: rounds fetched, completed or not
    regular        \* history: every round so far had exactly K distinct ids

vars == <<table, db, view, matches, num_results, num_requests, N, ranks, pc,
          err, budget, completed, observed, run, regular>>

\* ----------------------------------------------------------------- helpers
Max(a, b) == IF a >= b THEN a ELSE b

Range(s) == {s[i] : i \in 1..Len(s)}

Injective(s) == \A i, j \in 1..Len(s) : s[i] = s[j] => i = j

Zeros(k) == [i \in 1..k |-> 0]

RECURSIVE SeqSum(_)
SeqSum(s) == IF s = <<>> THEN 0 ELSE Head(s) + SeqSum(Tail(s))

MinOf(S) == CHOOSE x \in S : \A y \in S : x <= y

RECURSIVE SortedIds(_)
SortedIds(S) == IF S = {} THEN <<>>
                ELSE <<MinOf(S)>> \o SortedIds(S \ {MinOf(S)})

SeqsOfLen(S, n) == [1..n -> S]
SeqsUpTo(S, n) == UNION {SeqsOfLen(S, k) : k \in 0..n}

\* Lists of membership numbers a result page may carry: any duplicate-free
\* list (in any order and of any length, the empty list included), and lists
\* over two of the numbers with repetitions.
Rounds == {s \in SeqsUpTo(Ids, Cardinality(Ids)) : Injective(s)}
          \cup SeqsUpTo({3, 7}, MaxLen)

\* A response body is a sequence of pieces: a piece is either a membership
\* number prefixed by the marker "Membership number : " (its number), or
\* other markup (Other).  A page lists its numbers with or without markup
\* around them; a page of markup only carries no number.
Other == 0

RECURSIVE Markup(_)
Markup(m) == IF m = <<>> THEN <<Other>>
             ELSE <<Other, Head(m)>> \o Markup(Tail(m))

Pages == Rounds \cup {Markup(m) : m \in Rounds}

\* pattern.findall(html), then list(map(int, matches)): the marked numbers
\* in order of appearance.
pattern(piece) == piece # Other

scrape(html) == SelectSeq(html, pattern)

\* ------------------------------------------------------------ the database
\* A table: whether it exists, its number of rank columns, the ids that have
\* a row, and each row's counters (<<>> for an id without a row).
NoTable == [exists |-> FALSE, ncols |-> 0, ids |-> {},
            cnt |-> [i \in Ids |-> <<>>]]

NoDb == [t \in TableNames |-> NoTable]

\* CREATE TABLE IF NOT EXISTS t (id INTEGER PRIMARY KEY NOT NULL,
\*                               rank0 INTEGER DEFAULT 0, ...)
query_create(t, k) ==
    IF t.exists THEN t
    ELSE [exists |-> TRUE, ncols |-> k, ids |-> {},
          cnt |-> [i \in Ids |-> <<>>]]

\* Variant: INSERT OR REPLACE, which rewrites an existing row with defaults.
query_insert_replace(t, id) ==
    [t EXCEPT !.ids = @ \cup {id}, !.cnt[id] = Zeros(t.ncols)]

\* INSERT OR IGNORE INTO t (id) VALUES (?)
query_insert(t, id) ==
    IF id \in t.ids THEN t
    ELSE [t EXCEPT !.ids = @ \cup {id}, !.cnt[id] = Zeros(t.ncols)]

\* for i in range(num_results): c.execute(query_insert, (matches[i],))
RECURSIVE EnsureRows(_, _, _)
EnsureRows(t, m, i) ==
    IF i > Len(m) THEN t
    ELSE EnsureRows(query_insert(t, m[i]), m, i + 1)

\* Variant: the UPDATE without its WHERE clause, which sets rank{r} of
\* every row.
IncrementCellNoWhere(t, id, r) ==
    [t EXCEPT !.cnt = [i \in Ids |->
        IF i \in t.ids
        THEN [t.cnt[i] EXCEPT ![r + 1] = t.cnt[id][r + 1] + 1]
        ELSE t.cnt[i]]]

\* n = c.fetchone()[0]; UPDATE t SET rank{r}=n+1 WHERE id=?
IncrementCell(t, id, r) ==
    [t EXCEPT !.cnt[id][r + 1] = t.cnt[id][r + 1] + 1]

\* update_ranks up to its commit: the loop over enumerate(matches) from
\* 0-based position r on.  SELECT rank{r} raises OperationalError when the
\* column does not exist; fetchone() is None when the id has no row, and
\* None[0] raises TypeError.  The result keeps the changes made so far.
RECURSIVE UpdateFrom(_, _, _)
UpdateFrom(t, m, r) ==
    IF r >= Len(m) THEN [t |-> t, err |-> "none"]
    ELSE IF ~t.exists \/ r >= t.ncols
         THEN [t |-> t, err |-> "OperationalError"]
    ELSE IF m[r + 1] \notin t.ids THEN [t |-> t, err |-> "TypeError"]
    ELSE UpdateFrom(IncrementCell(t, m[r + 1], r), m, r + 1)

\* Variant: an update_ranks that looks at matches[0] before its loop.
update_ranks_nonempty(t, m) ==
    IF m = <<>> THEN [t |-> t, err |-> "IndexError"] ELSE UpdateFrom(t, m, 0)

update_ranks(t, m) == UpdateFrom(t, m, 0)

\* Column rank r of a table, rows in primary-key order.
Column(t, r) ==
    LET ids == SortedIds(t.ids)
    IN  [i \in 1..Len(ids) |-> t.cnt[ids[i]][r + 1]]

\* The table get_ranks selects from.
get_ranks_table == "fren"

\* get_ranks(rank): SELECT rank{r} FROM fren
get_ranks(d, r) ==
    LET t == d[get_ranks_table]
    IN  IF t.exists /\ r < t.ncols
        THEN [ok |-> TRUE, col |-> Column(t, r)]
        ELSE [ok |-> FALSE, col |-> <<>>]

\* num_samples(rank): sum(get_ranks(rank))
num_samples(d, r) == SeqSum(get_ranks(d, r).col)

\* Variant: the planner without its max(0, ...).
NumRequestsNoClamp(k, current) ==
    TargetFactor * (SamplesPerCategory * k) - current

\* num_requests = max(0, 2 * min_samples - num_samples(rank))
NumRequests(k, current) ==
    Max(0, TargetFactor * (SamplesPerCategory * k) - current)

\* The store an earlier run of the notebook left behind: table created for
\* PriorMatches, its rows inserted, and n rounds recorded.
RECURSIVE PriorRounds(_, _)
PriorRounds(t, n) ==
    IF n = 0 THEN t
    ELSE PriorRounds(update_ranks(t, PriorMatches).t, n - 1)

PriorTable(n) ==
    IF n = 0 THEN NoTable
    ELSE PriorRounds(EnsureRows(query_create(NoTable, Len(PriorMatches)),
                                PriorMatches, 1), n)

\* ------------------------------------------------------------------- Init
InitWith(maxPrior, maxRounds) ==
    /\ table \in TableNames
    /\ \E p \in 0..maxPrior :
          /\ db = [NoDb EXCEPT !["fren"] = PriorTable(p)]
          /\ completed = IF table = "fren" THEN p ELSE 0
          /\ run = IF table = "fren" THEN p ELSE 0
          /\ observed = [i \in Ids |->
                IF table = "fren" /\ i \in Range(PriorMatches) THEN p ELSE 0]
    /\ view = db
    /\ matches = <<>>
    /\ num_results = 0
    /\ num_requests = 0
    /\ N = 0
    /\ ranks = <<>>
    /\ pc = "scrape"
    /\ err = "none"
    /\ budget = maxRounds
    /\ regular = TRUE

Init == InitWith(MaxPrior, MaxRounds)

InitPlan == InitWith(MaxPlanPrior, MaxPlanRounds)

\* ---------------------------------------------------------------- actions
\* History bookkeeping of one recorded round.
IsRegular(t, m) == Len(m) > 0 /\ Len(m) = t.ncols /\ Injective(m)

ObservedAfter(m) == [i \in Ids |-> observed[i] + IF i \in Range(m) THEN 1 ELSE 0]

\* update_ranks(m) on the configured table, commit included.  On an
\* exception the loop's changes stay in the open transaction (view) and
\* nothing is committed; the run halts at the current cell.
RecordRound(m, next) ==
    LET res == update_ranks(view[table], m)
    IN  /\ view' = [view EXCEPT ![table] = res.t]
        /\ regular' = (regular /\ IsRegular(view[table], m))
        /\ IF res.err = "none"
           THEN /\ db' = view'
                /\ err' = "none"
                /\ pc' = next
                /\ completed' = completed + 1
                /\ observed' = ObservedAfter(m)
           ELSE /\ err' = res.err
                /\ UNCHANGED <<db, pc, completed, observed>>

\* cells 6-7: matches = scrape(url, data); num_results = len(matches)
Scrape0 ==
    /\ pc = "scrape" /\ err = "none" /\ budget > 0
    /\ \E html \in Pages :
          /\ matches' = scrape(html)
          /\ num_results' = Len(scrape(html))
    /\ pc' = "create"
    /\ budget' = budget - 1
    /\ run' = run + 1
    /\ UNCHANGED <<table, db, view, num_requests, N, ranks, err, completed,
                   observed, regular>>

\* cells 10-11: CREATE TABLE IF NOT EXISTS with num_results rank columns
Create ==
    /\ pc = "create" /\ err = "none"
    /\ view' = [view EXCEPT ![table] = query_create(@, num_results)]
    /\ db' = view'
    /\ pc' = "insert"
    /\ UNCHANGED <<table, matches, num_results, num_requests, N, ranks, err,
                   budget, completed, observed, run, regular>>

\* cell 12: INSERT OR IGNORE of matches[0..num_results-1], then commit
Insert ==
    /\ pc = "insert" /\ err = "none"
    /\ view' = [view EXCEPT
                  ![table] = EnsureRows(@, SubSeq(matches, 1, num_results), 1)]
    /\ db' = view'
    /\ pc' = "update"
    /\ UNCHANGED <<table, matches, num_results, num_requests, N, ranks, err,
                   budget, completed, observed, run, regular>>

\* cell 14: update_ranks(matches)
Update0 ==
    /\ pc = "update" /\ err = "none"
    /\ RecordRound(matches, "plan")
    /\ UNCHANGED <<table, matches, num_results, num_requests, N, ranks,
                   budget, run>>

\* cell 18: num_requests = max(0, 2 * min_samples - num_samples(rank))
Plan ==
    /\ pc = "plan" /\ err = "none"
    /\ LET g == get_ranks(view, RankToCheck)
       IN  IF g.ok
           THEN /\ ranks' = g.col
                /\ num_requests' = NumRequests(num_results, num_samples(view, RankToCheck))
                /\ N' = 0
                /\ pc' = "collect"
                /\ err' = "none"
           ELSE /\ err' = "OperationalError"
                /\ UNCHANGED <<ranks, num_requests, N, pc>>
    /\ UNCHANGED <<table, db, view, matches, num_results, budget, completed,
                   observed, run, regular>>

\* cell 19, one iteration of collect: sleep, scrape, update_ranks
collect ==
    /\ pc = "collect" /\ err = "none" /\ N < num_requests /\ budget > 0
    /\ \E html \in Pages :
          /\ matches' = scrape(html)
          /\ RecordRound(scrape(html), "collect")
    /\ N' = IF err' = "none" THEN N + 1 ELSE N
    /\ budget' = budget - 1
    /\ run' = run + 1
    /\ UNCHANGED <<table, num_results, num_requests, ranks>>

\* cell 19: range(num_requests) is exhausted, collect returns
collect_returns ==
    /\ pc = "collect" /\ err = "none" /\ N = num_requests
    /\ pc' = "test"
    /\ UNCHANGED <<table, db, view, matches, num_results, num_requests, N,
                   ranks, err, budget, completed, observed, run, regular>>

\* requests.post raises: the exception leaves scrape and halts the run
ScrapeFails ==
    /\ err = "none"
    /\ \/ pc = "scrape"
       \/ pc = "collect" /\ N < num_requests
    /\ err' = "ConnectionError"
    /\ UNCHANGED <<table, db, view, matches, num_results, num_requests, N,
                   ranks, pc, budget, completed, observed, run, regular>>

\* the collect cell is run again in the same session after it raised
Rerun ==
    /\ pc = "collect" /\ err # "none"
    /\ err' = "none"
    /\ N' = 0
    /\ UNCHANGED <<table, db, view, matches, num_results, num_requests,
                   ranks, pc, budget, completed, observed, run, regular>>

\* cell 21: for rank in range(num_results): ranks = get_ranks(rank); ...
\* The columns are read in order; the first one that cannot be read raises.
\* (The chi-square computation itself is scipy's and is not modelled.)
Test ==
    /\ pc = "test" /\ err = "none"
    /\ LET bad == {r \in 0..(num_results - 1) : ~get_ranks(view, r).ok}
           last == IF bad = {} THEN num_results - 1 ELSE MinOf(bad) - 1
       IN  /\ ranks' = IF last >= 0 THEN get_ranks(view, last).col ELSE ranks
           /\ IF bad = {}
              THEN pc' = "done" /\ err' = "none"
              ELSE pc' = pc /\ err' = "OperationalError"
    /\ UNCHANGED <<table, db, view, matches, num_results, num_requests, N,
                   budget, completed, observed, run, regular>>

Next ==
    \/ Scrape0
    \/ Create
    \/ Insert
    \/ Update0
    \/ Plan
    \/ collect
    \/ collect_returns
    \/ ScrapeFails
    \/ Rerun
    \/ Test

Spec == Init /\ [][Next]_vars

SpecPlan == InitPlan /\ [][Next]_vars

\* ------------------------------------------------------------- properties
\* Steps of the notebook, recognised from the variables they change.
UpdateStep ==      \* one execution of update_ranks(matches')
    \/ pc = "update" /\ err = "none" /\ (pc' # pc \/ err' # err)
    \/ pc = "collect" /\ run' = run + 1

CollectStep == pc = "collect" /\ run' = run + 1

InsertStep == pc = "insert" /\ pc' = "update"

PlanStep == pc = "plan" /\ err = "none" /\ (pc' # pc \/ err' # err)

TestStep == pc = "test" /\ err = "none" /\ (pc' # pc \/ err' # err)

Faults == {"OperationalError", "TypeError"}

ColSum(t, r) == SeqSum(Column(t, r))

Delta(m, id, r) == IF r < Len(m) /\ m[r + 1] = id THEN 1 ELSE 0

Ones(row) == Cardinality({i \in 1..Len(row) : row[i] = 1})

AllZero(t) == \A id \in t.ids : SeqSum(t.cnt[id]) = 0

AfterFirst == (3 :> <<0, 1, 0>>) @@ (7 :> <<1, 0, 0>>) @@ (9 :> <<0, 0, 1>>)

AfterSecond == (3 :> <<1, 1, 0>>) @@ (7 :> <<1, 1, 0>>) @@ (9 :> <<0, 0, 2>>)

\* C1: after completed rounds that each returned exactly K distinct
\* identifiers (so none parsed to an empty list), every rank column of the
\* stored table sums to the number of completed rounds.
C1_ColumnSums ==
    regular =>
        \A r \in 0..(db[table].ncols - 1) : ColSum(db[table], r) = completed

\* C2: update_ranks is all-or-nothing: a round that raises part-way leaves
\* every counter, as read through the same connection, at the value it had
\* before the round started.
C2_AllOrNothing ==
    [][(UpdateStep /\ err' \in Faults) => view' = view]_vars

\* C3: every round of collect inserts the rows of the fetched identifiers
\* before recording: afterwards each fetched identifier has a row, and a
\* round that fits the table's columns is recorded.
C3_EnsureRowsEachRound ==
    [][CollectStep =>
          /\ Range(matches') \subseteq view'[table].ids
          /\ (Len(matches') <= view[table].ncols => err' = "none")]_vars

\* C4: when every identifier of the round has a row, update_ranks adds
\* exactly 1 to counter rank r of the row of matches[r] for every position
\* r, changes no other counter of any row and no set of rows, and a round
\* that fits the columns is committed; with K=3, [7,3,9] on a fresh table
\* then [3,7,9] give 7:[1,1,0], 3:[1,1,0], 9:[0,0,2], and after a first
\* round of distinct identifiers each of their rows holds exactly one 1.
C4_FrameEffect ==
    [][UpdateStep /\ Range(matches') \subseteq view[table].ids =>
          LET t == view[table]
              u == view'[table]
              m == matches'
          IN  /\ u.exists = t.exists /\ u.ncols = t.ncols /\ u.ids = t.ids
              /\ \A id \in Ids :
                    IF id \in t.ids
                    THEN /\ Len(u.cnt[id]) = t.ncols
                         /\ \A r \in 0..(t.ncols - 1) :
                               u.cnt[id][r + 1] = t.cnt[id][r + 1] + Delta(m, id, r)
                    ELSE u.cnt[id] = t.cnt[id]
              /\ \A n \in TableNames \ {table} : view'[n] = view[n]
              /\ (Len(m) <= t.ncols => err' = "none" /\ db' = view')
              /\ (t.ncols = 3 /\ t.ids = Ids /\ AllZero(t) /\ m = <<7, 3, 9>>
                    => u.cnt = AfterFirst)
              /\ (t.ncols = 3 /\ t.cnt = AfterFirst /\ m = <<3, 7, 9>>
                    => u.cnt = AfterSecond)
              /\ (AllZero(t) /\ Injective(m) /\ Len(m) <= t.ncols
                    => \A id \in Range(m) :
                          Ones(u.cnt[id]) = 1 /\ SeqSum(u.cnt[id]) = 1)]_vars

C4_Witness ==
    /\ pc = "collect" /\ err = "none" /\ N = 1
    /\ matches = <<3, 7, 9>>
    /\ view[table].cnt = AfterSecond
    /\ db = view

\* C5: get_ranks reads the configured table: the planner and the test read
\* the rank column of the table that the run created and writes into.
C5_ReadsConfiguredTable ==
    [][/\ (PlanStep /\ view[table].ncols > RankToCheck
             => err' = "none" /\ ranks' = Column(view[table], RankToCheck))
       /\ (TestStep /\ num_results > 0 /\ num_results <= view[table].ncols
             => err' = "none" /\ ranks' = Column(view[table], num_results - 1))
      ]_vars

\* C6: the insert cell is idempotent: it adds a row of K zero counters for
\* each listed identifier that has none, never a second row, changes no
\* counter of an existing row (zero or not), also for lists with repeated
\* identifiers, and applying it again changes nothing.
C6_EnsureRowsIdempotent ==
    [][InsertStep =>
          LET t == view[table]
              u == view'[table]
              m == SubSeq(matches, 1, num_results)
          IN  /\ u.exists /\ u.ncols = t.ncols
              /\ u.ids = t.ids \cup Range(m)
              /\ \A id \in t.ids : u.cnt[id] = t.cnt[id]
              /\ \A id \in Range(m) \ t.ids : u.cnt[id] = Zeros(t.ncols)
              /\ \A id \in Ids \ u.ids : u.cnt[id] = <<>>
              /\ EnsureRows(u, m, 1) = u
              /\ \A n \in TableNames \ {table} : view'[n] = view[n]
              /\ db' = view']_vars

C6_Witness ==
    /\ pc = "update" /\ err = "none"
    /\ ~Injective(matches)
    /\ \E id \in Range(matches) : SeqSum(view[table].cnt[id]) > 0

\* C7: after recorded rounds that each returned exactly K distinct
\* identifiers, the counters of every stored row sum to the number of
\* recorded rounds in which its identifier appeared, and to no more than
\* the number of rounds run.
C7_RowSums ==
    regular =>
        \A id \in db[table].ids :
            /\ SeqSum(db[table].cnt[id]) = observed[id]
            /\ SeqSum(db[table].cnt[id]) <= run

\* C8: the planner sets num_requests to max(0, 2*5*K - current) for the
\* column sum it read: never negative, 0 when current >= 10*K, 1090 for
\* K=109 and current=0; collect neither recomputes it nor reads the column
\* again, counts each recorded round once and returns after exactly
\* num_requests of them.
C8_Planner ==
    [][/\ (PlanStep /\ err' = "none" =>
             LET current == ColSum(view[get_ranks_table], RankToCheck)
                 target == 10 * num_results
             IN  /\ ranks' = Column(view[get_ranks_table], RankToCheck)
                 /\ num_requests' >= 0
                 /\ (current >= target => num_requests' = 0)
                 /\ (current < target => num_requests' = target - current)
                 /\ N' = 0)
       /\ NumRequests(109, 0) = 1090
       /\ (pc = "collect" => num_requests' = num_requests /\ ranks' = ranks)
       /\ (CollectStep => N' = IF err' = "none" THEN N + 1 ELSE N)
       /\ (pc = "collect" /\ pc' = "test" => N = num_requests)]_vars

C8_Witness ==
    /\ pc = "test" /\ err = "none"
    /\ num_requests >= 1
    /\ N = num_requests
    /\ SeqSum(ranks) + num_requests = 10 * num_results

\* C10: a round whose page carries no match is an empty round, not an
\* error: update_ranks raises nothing, leaves every table as it was, and
\* collect counts the round and stays in its loop.
C10_EmptyRound ==
    [][/\ \A html \in Pages :
             (\A i \in 1..Len(html) : html[i] = Other) => scrape(html) = <<>>
       /\ (CollectStep /\ matches' = <<>> =>
             /\ err' = "none"
             /\ view' = view
             /\ N' = N + 1
             /\ pc' = "collect"
             /\ num_requests' = num_requests)]_vars

C10_Witness ==
    /\ pc = "collect" /\ err = "none"
    /\ matches # <<>>
    /\ N = 2
    /\ completed = run
    /\ view[table].ncols > 0
    /\ ColSum(view[table], 0) = completed - 1

====
